---- MODULE Spec2Model ----
(***************************************************************************)
(* The allocation layer of duckdb: Allocator (AllocateData, FreeData,      *)
(* ReallocateData), its debug instrumentation (AllocatorDebugInfo) and the *)
(* owned buffer AllocatedData.                                             *)
(*                                                                         *)
(* Two drafts of the file exist: src/unnamed/part_000 (size ceiling, debug *)
(* instrumentation, optional lemon pool behind the global mutex `mtx`) and *)
(* src/src/common/allocator.cpp (bare forwarding to the function table).   *)
(* `build` selects the draft and the preprocessor switches of part_000.    *)
(*                                                                         *)
(* With DEBUG and LEMON_MALLOC both on, part_000 passes `result` (line 140)*)
(* and `new_pointer` (line 191) to the instrumentation before the pool     *)
(* produced them.  The model keeps the textual order of the statements.    *)
(* The counter-only instrumentation never reads that pointer, so its       *)
(* behaviour is determined; the extended registry would be keyed by it, so *)
(* DUCKDB_DEBUG_ALLOCATION together with LEMON_MALLOC is left out.         *)
(***************************************************************************)
EXTENDS Integers, Sequences, FiniteSets, TLC

\* ---------------------------------------------------------------- bounds
\* Number of byte cells of the modelled address space (addresses 1..MemSize).
MemSize == 3
\* The allocation ceiling, scaled down: its value is set in
\* duckdb/common/allocator.hpp, the code only compares against it.
MAXIMUM_ALLOC_SIZE == 3
\* Cap on the outstanding-byte counter (idx_t, 64 bit, never wraps below it).
MaxCount == 3
\* Number of AllocatedData objects that can come to exist.
MaxHandles == 2
\* Number of threads calling the one Allocator, and AllocateData/FreeData
\* pairs each of them performs.
NumThreads == 2
NumPairs == 1
\* Number of threads racing to the default Allocator, and accesses each of
\* them makes.
NumCallers == 3
NumAccesses == 2

null == 0
Ptr == 1..MemSize
PtrOrNull == Ptr \cup {null}
Sizes == 0..MAXIMUM_ALLOC_SIZE

VARIABLES
    build,             \* [file, DEBUG, DUCKDB_DEBUG_ALLOCATION, LEMON_MALLOC]
    mem,               \* content of every byte cell
    heap,              \* the backend's live blocks: start address -> size
    allocation_count,  \* AllocatorDebugInfo::allocation_count
    pointers,          \* AllocatorDebugInfo::pointers: pointer -> size
    halted,            \* the process ended (failed D_ASSERT or crash)
    last,              \* record of the most recent Allocator call
    handles,           \* the AllocatedData objects: state and the three fields
    wrapped,           \* every (allocator, pointer, size) a buffer was built on
    free_calls,        \* the FreeData calls the buffers made: call -> how often
    owned_last,        \* record of the most recent AllocatedData operation
    threads,           \* per thread: position, locals and pairs performed
    mtx,               \* holder of the global std::mutex mtx (no_thread: free)
    pointer_lock,      \* holder of AllocatorDebugInfo::pointer_lock
    DEFAULT_ALLOCATOR, \* the function-local static: [guard, instance]
    constructed,       \* number of Allocator objects make_shared has built
    callers,           \* per thread: position in DefaultAllocator(), accesses made
    returned           \* the instances DefaultAllocator() has returned so far

allocVars == <<build, mem, heap, allocation_count, pointers, halted, last>>
ownedVars == <<handles, wrapped, free_calls, owned_last>>
threadVars == <<threads, mtx, pointer_lock>>
defaultVars == <<DEFAULT_ALLOCATOR, constructed, callers, returned>>
vars == <<allocVars, ownedVars, threadVars, defaultVars>>

\* ------------------------------------------------------------ finite maps
EmptyMap == [x \in {} |-> 0]
Put(f, k, v) == [x \in (DOMAIN f) \cup {k} |-> IF x = k THEN v ELSE f[x]]
Drop(f, k) == [x \in (DOMAIN f) \ {k} |-> f[x]]
Min(a, b) == IF a < b THEN a ELSE b

\* ------------------------------------------------------------------ build
Builds ==
    {[file |-> "part_000", DEBUG |-> d, DUCKDB_DEBUG_ALLOCATION |-> e, LEMON_MALLOC |-> l] :
        d \in BOOLEAN, e \in BOOLEAN, l \in BOOLEAN}
    \cup {[file |-> "allocator.cpp", DEBUG |-> FALSE, DUCKDB_DEBUG_ALLOCATION |-> FALSE,
           LEMON_MALLOC |-> FALSE]}

\* The extended registry exists only inside #ifdef DEBUG.
extended == build.DEBUG /\ build.DUCKDB_DEBUG_ALLOCATION

\* ---------------------------------------------------------------- backend
\* The three-operation backend (function table or lemon pool) over a flat
\* address space.  A block of n bytes at a occupies the cells a..a+n-1.
Cells(a, n) == a..(a + n - 1)
Live(h) == DOMAIN h
Used(h) == UNION {Cells(a, h[a]) : a \in Live(h)}
CanPlace(h, a, n) ==
    /\ a \notin Live(h)
    /\ a \notin Used(h)
    /\ Cells(a, n) \subseteq Ptr
    /\ Cells(a, n) \cap (Used(h) \cup Live(h)) = {}

\* allocate(ctx, size): null on exhaustion, else the start of a free range.
Places(h, n) == {a \in Ptr : CanPlace(h, a, n)}

BackendAllocate(h, n) == IF Places(h, n) = {} THEN {null} ELSE Places(h, n)

\* reallocate(ctx, pointer, old_size, size): null on exhaustion (block left
\* valid), else the block resized in place or a block elsewhere.
Moves(h, p, n) ==
    {a \in Ptr : CanPlace(Drop(h, p), a, n)
                 /\ (a = p \/ Cells(a, n) \cap Cells(p, h[p]) = {})}

BackendReallocate(h, p, n) == IF Moves(h, p, n) = {} THEN {null} ELSE Moves(h, p, n)

\* Content of the n cells starting at a.
Content(m, a, n) == [i \in 1..n |-> m[a + i - 1]]

\* memcpy(dst, src, n) done byte by byte in the order `order` (a sequence of
\* offsets); the direction is the library's choice.
RECURSIVE CopyBytes(_, _, _, _)
CopyBytes(m, dst, src, order) ==
    IF order = <<>> THEN m
    ELSE CopyBytes([m EXCEPT ![dst + Head(order)] = m[src + Head(order)]],
                   dst, src, Tail(order))

Forward(n) == [i \in 1..n |-> i - 1]
Backward(n) == [i \in 1..n |-> n - i]

\* ------------------------------------------------------ debug instrumentation
\* What part_000 passes as the pointer when the pool has not produced it yet
\* (lines 140 and 191 under LEMON_MALLOC); the counter never reads it.
Unset == null

DebugInfo == [count |-> allocation_count, pointers |-> pointers, ok |-> TRUE]

AllocatorDebugInfo_AllocateData(d, pointer, size) ==
    [count    |-> d.count + size,
     pointers |-> IF extended THEN Put(d.pointers, pointer, size) ELSE d.pointers,
     ok       |-> d.ok]

\* Mutant: the free forgets to lower the counter.
AllocatorDebugInfo_FreeData_keeps_count(d, pointer, size) ==
    IF d.count < size THEN [d EXCEPT !.ok = FALSE]
    ELSE IF ~extended THEN d
    ELSE IF pointer \notin DOMAIN d.pointers THEN [d EXCEPT !.ok = FALSE]
    ELSE IF d.pointers[pointer] # size THEN [d EXCEPT !.ok = FALSE]
    ELSE [d EXCEPT !.pointers = Drop(d.pointers, pointer)]

\* ok = FALSE: a D_ASSERT failed (the counter keeps the value it had then).
AllocatorDebugInfo_FreeData(d, pointer, size) ==
    IF d.count < size THEN [d EXCEPT !.ok = FALSE]
    ELSE LET c == d.count - size IN
         IF ~extended THEN [d EXCEPT !.count = c]
         ELSE IF pointer \notin DOMAIN d.pointers
                 THEN [d EXCEPT !.count = c, !.ok = FALSE]
         ELSE IF d.pointers[pointer] # size
                 THEN [d EXCEPT !.count = c, !.ok = FALSE]
         ELSE [d EXCEPT !.count = c, !.pointers = Drop(d.pointers, pointer)]

\* Mutant: the reallocation is recorded as an allocation only.
AllocatorDebugInfo_ReallocateData_keeps_old(d, pointer, new_pointer, old_size, new_size) ==
    AllocatorDebugInfo_AllocateData(d, new_pointer, new_size)

AllocatorDebugInfo_ReallocateData(d, pointer, new_pointer, old_size, new_size) ==
    LET f == AllocatorDebugInfo_FreeData(d, pointer, old_size) IN
    IF f.ok THEN AllocatorDebugInfo_AllocateData(f, new_pointer, new_size) ELSE f

\* ------------------------------------------------------------ call records
NoPair == <<>>
\* What a caller can tell of the most recent call: the operation, the pointer
\* and (new) size passed, what came back and how, and the backend calls made.
Call(op, pointer, size, result, status, backend) ==
    [op |-> op, pointer |-> pointer, size |-> size,
     result |-> result, status |-> status, backend |-> backend,
     count_before |-> IF op = "AllocateData" /\ status = "ok" /\ result # null
                         THEN allocation_count ELSE 0,
     pair |-> NoPair, oob |-> FALSE]

NoCall == [op |-> "none", pointer |-> null, size |-> 0,
           result |-> null, status |-> "ok", backend |-> <<>>,
           count_before |-> 0, pair |-> NoPair, oob |-> FALSE]

\* The call ends without touching the backend or the instrumentation.
\* status: "ok" (returned), "InternalException", "bad_alloc" (thrown),
\* "D_ASSERT" (fatal assertion), "undefined" (crash of undefined behaviour).
Ends(rec) ==
    /\ last' = rec
    /\ halted' = (rec.status \in {"D_ASSERT", "undefined"})
    /\ UNCHANGED <<build, mem, heap, allocation_count, pointers>>

\* ------------------------------------------------------------ owned buffers
HandleIds == 1..MaxHandles
no_allocator == 0
\* The Allocator instances the buffers can refer to.
Allocators == {1, 2}

\* A slot no object lives in (before construction, after destruction).
Absent(state) ==
    [state |-> state, allocator |-> no_allocator, pointer |-> null, allocated_size |-> 0]

\* The most recent operation: the objects it acted on, what they held before
\* (kept for the moves), whether `this` held no pointer before (Reset,
\* destructor) and the FreeData calls it made.
NoOp == [op |-> "none", this |-> 0, other |-> 0, status |-> "ok",
         this_before |-> Absent("unused"), other_before |-> Absent("unused"),
         was_released |-> FALSE, freed |-> <<>>]

NoBuffers ==
    /\ handles = [h \in HandleIds |-> Absent("unused")]
    /\ wrapped = {}
    /\ free_calls = EmptyMap
    /\ owned_last = NoOp

\* ---------------------------------------------------------------- threads
ThreadIds == 1..NumThreads
no_thread == 0

\* A thread between two calls; pairs counts the pairs it has performed.
\* op, i: the call in progress and its next step; new_size, result: the size
\* asked for and what the backend returned; holds, pointer, size: the block
\* the thread got from its last AllocateData.
Idle(pairs) ==
    [op |-> "none", i |-> 0, new_size |-> 0, result |-> null,
     holds |-> FALSE, pointer |-> null, size |-> 0, reallocated |-> FALSE,
     pairs |-> pairs]

NoThreads ==
    /\ threads = [t \in ThreadIds |-> Idle(0)]
    /\ mtx = no_thread
    /\ pointer_lock = no_thread

\* ------------------------------------------------- the default Allocator
CallerIds == 1..NumCallers
no_instance == 0

\* Before the first call of DefaultAllocatorReference().
NoDefault ==
    /\ DEFAULT_ALLOCATOR = [guard |-> "uninitialized", by |-> no_thread,
                            instance |-> no_instance]
    /\ constructed = 0
    /\ callers = [t \in CallerIds |-> [pc |-> "idle", accesses |-> 0]]
    /\ returned = {}

\* ------------------------------------------------------------------- Init
\* A fresh Allocator: nothing allocated, nothing counted or registered.
InitState ==
    /\ mem = [a \in Ptr |-> 0]
    /\ heap = EmptyMap
    /\ allocation_count = 0
    /\ pointers = EmptyMap
    /\ halted = FALSE
    /\ last = NoCall
    /\ NoBuffers
    /\ NoThreads
    /\ NoDefault

Init ==
    /\ build \in Builds
    /\ (build.DUCKDB_DEBUG_ALLOCATION => build.DEBUG /\ ~build.LEMON_MALLOC)
    /\ InitState

\* The builds without instrumentation, with the content of memory followed:
\* the code only copies bytes, so each cell starts with a token of its own.
InitContent ==
    /\ build \in Builds
    /\ ~build.DEBUG /\ ~build.DUCKDB_DEBUG_ALLOCATION
    /\ mem = [a \in Ptr |-> a]
    /\ heap = EmptyMap
    /\ allocation_count = 0
    /\ pointers = EmptyMap
    /\ halted = FALSE
    /\ last = NoCall
    /\ NoBuffers
    /\ NoThreads
    /\ NoDefault

\* ------------------------------------------------- Allocator, part_000
AllocateData(size) ==
    /\ build.file = "part_000"
    /\ ~halted
    /\ (build.DEBUG /\ size < MAXIMUM_ALLOC_SIZE)
          => allocation_count + size <= MaxCount
    /\ IF build.DEBUG /\ size = 0
          THEN Ends(Call("AllocateData", null, size, null, "D_ASSERT", <<>>))
       ELSE IF size >= MAXIMUM_ALLOC_SIZE
          THEN Ends(Call("AllocateData", null, size, null,
                         IF build.DEBUG THEN "D_ASSERT" ELSE "InternalException", <<>>))
       ELSE \E result \in BackendAllocate(heap, size) :
            LET registered == IF build.LEMON_MALLOC THEN Unset ELSE result
                d == IF build.DEBUG
                        THEN AllocatorDebugInfo_AllocateData(DebugInfo, registered, size)
                        ELSE DebugInfo
                thrown == ~build.LEMON_MALLOC /\ result = null
            IN  /\ heap' = IF result = null THEN heap ELSE Put(heap, result, size)
                /\ allocation_count' = d.count
                /\ pointers' = d.pointers
                /\ last' = Call("AllocateData", null, size,
                                result,
                                IF thrown THEN "bad_alloc" ELSE "ok",
                                IF build.LEMON_MALLOC THEN <<"lemon_malloc">>
                                                      ELSE <<"allocate_function">>)
                /\ halted' = FALSE
                /\ UNCHANGED <<build, mem>>

\* The counter value a FreeData(pointer, size) right after the matching
\* successful AllocateData started from (NoPair when `last` is no such call).
PairOf(pointer, size) ==
    IF /\ last.op = "AllocateData" /\ last.status = "ok"
       /\ last.result = pointer /\ last.size = size
    THEN <<last.count_before>> ELSE NoPair

\* free(ctx, pointer, size) of the function table: undefined unless size is
\* the block's size.  lemon_free(pointer) takes no size.
BackendFreeDefined(pointer, size) ==
    /\ pointer \in Live(heap)
    /\ (~build.LEMON_MALLOC => heap[pointer] = size)

FreeData_NonNull(pointer, size) ==
    IF build.DEBUG /\ size = 0
       THEN Ends(Call("FreeData", pointer, size, null, "D_ASSERT", <<>>))
    ELSE LET d == IF build.DEBUG
                     THEN AllocatorDebugInfo_FreeData(DebugInfo, pointer, size)
                     ELSE DebugInfo
             status == IF ~d.ok THEN "D_ASSERT"
                       ELSE IF ~BackendFreeDefined(pointer, size) THEN "undefined"
                       ELSE "ok"
         IN  /\ allocation_count' = d.count
             /\ pointers' = d.pointers
             /\ heap' = IF status = "ok" THEN Drop(heap, pointer) ELSE heap
             /\ last' = [Call("FreeData", pointer, size, null, status,
                              IF ~d.ok THEN <<>>
                              ELSE IF build.LEMON_MALLOC THEN <<"lemon_free">>
                              ELSE <<"free_function">>)
                         EXCEPT !.pair = PairOf(pointer, size)]
             /\ halted' = (status # "ok")
             /\ UNCHANGED <<build, mem>>

\* Mutant: the size assertion is made before the null test.
FreeData_asserts_first(pointer, size) ==
    /\ build.file = "part_000"
    /\ ~halted
    /\ IF build.DEBUG /\ size = 0
          THEN Ends(Call("FreeData", pointer, size, null, "D_ASSERT", <<>>))
       ELSE IF pointer = null
          THEN Ends(Call("FreeData", pointer, size, null, "ok", <<>>))
       ELSE FreeData_NonNull(pointer, size)

FreeData(pointer, size) ==
    /\ build.file = "part_000"
    /\ ~halted
    /\ IF pointer = null
          THEN Ends(Call("FreeData", pointer, size, null, "ok", <<>>))
       ELSE FreeData_NonNull(pointer, size)

\* The caller passed a live block with the size it holds.
Proper(pointer, old_size) == pointer \in Live(heap) /\ heap[pointer] = old_size

ReallocRecord(pointer, old_size, size, result, status, backend, oob) ==
    [Call("ReallocateData", pointer, size, result, status, backend)
     EXCEPT !.oob = oob]

\* #ifndef LEMON_MALLOC: reallocate_function, then the instrumentation, then
\* the null test.
ReallocateData_function_table(pointer, old_size, size) ==
    IF ~Proper(pointer, old_size)
       THEN Ends(ReallocRecord(pointer, old_size, size, null, "undefined",
                               <<"reallocate_function">>, FALSE))
    ELSE \E new_pointer \in BackendReallocate(heap, pointer, size) :
         LET d == IF build.DEBUG
                     THEN AllocatorDebugInfo_ReallocateData(DebugInfo, pointer, new_pointer,
                                                            old_size, size)
                     ELSE DebugInfo
             kept == Min(old_size, size)
             status == IF ~d.ok THEN "D_ASSERT"
                       ELSE IF new_pointer = null THEN "bad_alloc" ELSE "ok"
         IN  /\ heap' = IF new_pointer = null THEN heap
                        ELSE Put(Drop(heap, pointer), new_pointer, size)
             /\ mem' = IF new_pointer \in {null, pointer} THEN mem
                       ELSE CopyBytes(mem, new_pointer, pointer, Forward(kept))
             /\ allocation_count' = d.count
             /\ pointers' = d.pointers
             /\ last' = ReallocRecord(pointer, old_size, size, new_pointer, status,
                                      <<"reallocate_function">>, FALSE)
             /\ halted' = (status = "D_ASSERT")
             /\ UNCHANGED build

\* #ifdef LEMON_MALLOC: the instrumentation (on the value of `new_pointer`
\* read before the pool produced it), then under mtx: lemon_malloc(size),
\* memcpy(new_addr, pointer, old_size), lemon_free(pointer).
ReallocateData_lemon(pointer, old_size, size) ==
    \E new_addr \in BackendAllocate(heap, size),
       order \in {Forward(old_size), Backward(old_size)} :
       LET d == IF build.DEBUG
                   THEN AllocatorDebugInfo_ReallocateData(DebugInfo, pointer, Unset,
                                                          old_size, size)
                   ELSE DebugInfo
           oob == old_size > 0 /\ (old_size > size \/ ~pointer \in Live(heap)
                                   \/ old_size > heap[pointer])
           crash == old_size > 0 /\ (new_addr = null
                                     \/ ~Cells(new_addr, old_size) \subseteq Ptr
                                     \/ ~Cells(pointer, old_size) \subseteq Ptr)
           status == IF ~d.ok THEN "D_ASSERT"
                     ELSE IF crash \/ pointer \notin Live(heap) THEN "undefined"
                     ELSE "ok"
       IN  /\ allocation_count' = d.count
           /\ pointers' = d.pointers
           /\ heap' = IF status # "ok" THEN heap
                      ELSE IF new_addr = null THEN Drop(heap, pointer)
                      ELSE Drop(Put(heap, new_addr, size), pointer)
           /\ mem' = IF status # "ok" THEN mem
                     ELSE CopyBytes(mem, new_addr, pointer, order)
           /\ last' = ReallocRecord(pointer, old_size, size,
                                    IF status = "ok" THEN new_addr ELSE null, status,
                                    IF ~d.ok THEN <<>>
                                    ELSE <<"lemon_malloc", "memcpy", "lemon_free">>,
                                    d.ok /\ oob)
           /\ halted' = (status # "ok")
           /\ UNCHANGED build

ReallocateData_NonNull(pointer, old_size, size) ==
    IF size >= MAXIMUM_ALLOC_SIZE
       THEN Ends(ReallocRecord(pointer, old_size, size, null,
                               IF build.DEBUG THEN "D_ASSERT" ELSE "InternalException",
                               <<>>, FALSE))
    ELSE IF build.LEMON_MALLOC THEN ReallocateData_lemon(pointer, old_size, size)
    ELSE ReallocateData_function_table(pointer, old_size, size)

\* Mutant: the size ceiling is tested before the null pointer.
ReallocateData_ceiling_first(pointer, old_size, size) ==
    /\ build.file = "part_000"
    /\ ~halted
    /\ (build.DEBUG /\ pointer # null /\ size < MAXIMUM_ALLOC_SIZE)
          => allocation_count + size <= MaxCount
    /\ IF size >= MAXIMUM_ALLOC_SIZE
          THEN ReallocateData_NonNull(pointer, old_size, size)
       ELSE IF pointer = null
          THEN Ends(Call("ReallocateData", pointer, size, null, "ok", <<>>))
       ELSE ReallocateData_NonNull(pointer, old_size, size)

ReallocateData(pointer, old_size, size) ==
    /\ build.file = "part_000"
    /\ ~halted
    /\ (build.DEBUG /\ pointer # null /\ size < MAXIMUM_ALLOC_SIZE)
          => allocation_count + size <= MaxCount
    /\ IF pointer = null
          THEN Ends(Call("ReallocateData", pointer, size, null, "ok", <<>>))
       ELSE ReallocateData_NonNull(pointer, old_size, size)

\* ------------------------------------------- Allocator, allocator.cpp
Draft_AllocateData(size) ==
    /\ build.file = "allocator.cpp"
    /\ ~halted
    /\ \E result \in BackendAllocate(heap, size) :
          /\ heap' = IF result = null THEN heap ELSE Put(heap, result, size)
          /\ last' = Call("AllocateData", null, size, result, "ok",
                          <<"allocate_function">>)
          /\ UNCHANGED <<build, mem, allocation_count, pointers, halted>>

Draft_FreeData(pointer, size) ==
    /\ build.file = "allocator.cpp"
    /\ ~halted
    /\ IF pointer = null
          THEN Ends(Call("FreeData", pointer, size, null, "ok", <<>>))
       ELSE LET status == IF BackendFreeDefined(pointer, size) THEN "ok" ELSE "undefined"
            IN  /\ heap' = IF status = "ok" THEN Drop(heap, pointer) ELSE heap
                /\ last' = Call("FreeData", pointer, size, null, status,
                                <<"free_function">>)
                /\ halted' = (status # "ok")
                /\ UNCHANGED <<build, mem, allocation_count, pointers>>

\* ReallocateData(pointer, size): this draft takes no old_size.
Draft_ReallocateData(pointer, size) ==
    /\ build.file = "allocator.cpp"
    /\ ~halted
    /\ IF pointer = null
          THEN Ends(Call("ReallocateData", pointer, size, pointer, "ok", <<>>))
       ELSE IF pointer \notin Live(heap)
          THEN Ends(Call("ReallocateData", pointer, size, null, "undefined",
                         <<"reallocate_function">>))
       ELSE \E new_pointer \in BackendReallocate(heap, pointer, size) :
            /\ heap' = IF new_pointer = null THEN heap
                       ELSE Put(Drop(heap, pointer), new_pointer, size)
            /\ mem' = IF new_pointer \in {null, pointer} THEN mem
                      ELSE CopyBytes(mem, new_pointer, pointer,
                                     Forward(Min(heap[pointer], size)))
            /\ last' = ReallocRecord(pointer, heap[pointer], size, new_pointer, "ok",
                                     <<"reallocate_function">>, FALSE)
            /\ UNCHANGED <<build, allocation_count, pointers, halted>>

\* What callers pass: null, a live block with its size, or (debug builds,
\* where misuse is answered by an assertion) anything.
Passes(pointer, old_size) ==
    pointer = null \/ build.DEBUG \/ Proper(pointer, old_size)

Next ==
    \/ /\ \E size \in Sizes : AllocateData(size)
       /\ UNCHANGED <<ownedVars, threadVars, defaultVars>>
    \/ /\ \E pointer \in PtrOrNull, size \in Sizes :
             Passes(pointer, size) /\ FreeData(pointer, size)
       /\ UNCHANGED <<ownedVars, threadVars, defaultVars>>
    \/ /\ \E pointer \in PtrOrNull, old_size \in Sizes, size \in Sizes :
             /\ pointer = null \/ Proper(pointer, old_size)
             /\ ReallocateData(pointer, old_size, size)
       /\ UNCHANGED <<ownedVars, threadVars, defaultVars>>
    \/ /\ \E size \in Sizes : Draft_AllocateData(size)
       /\ UNCHANGED <<ownedVars, threadVars, defaultVars>>
    \/ /\ \E pointer \in PtrOrNull, size \in Sizes :
             Passes(pointer, size) /\ Draft_FreeData(pointer, size)
       /\ UNCHANGED <<ownedVars, threadVars, defaultVars>>
    \/ /\ \E pointer \in PtrOrNull, size \in Sizes :
             /\ pointer = null \/ pointer \in Live(heap)
             /\ Draft_ReallocateData(pointer, size)
       /\ UNCHANGED <<ownedVars, threadVars, defaultVars>>

\* ------------------------------------------------ AllocatedData, part_000
Buffer(allocator, pointer, allocated_size) ==
    [state |-> "live", allocator |-> allocator, pointer |-> pointer,
     allocated_size |-> allocated_size]

IsLive(h) == handles[h].state = "live"
IsUnused(h) == handles[h].state = "unused"
FreeCall(b) ==
    [allocator |-> b.allocator, pointer |-> b.pointer, size |-> b.allocated_size]

\* free_calls after the calls in `freed` (at most one) were made.
Freed(freed) ==
    IF freed = <<>> THEN free_calls
    ELSE IF freed[1] \in DOMAIN free_calls
         THEN Put(free_calls, freed[1], free_calls[freed[1]] + 1)
    ELSE Put(free_calls, freed[1], 1)

TimesFreed(call) == IF call \in DOMAIN free_calls THEN free_calls[call] ELSE 0

Op(op, this, other, status, freed) ==
    [op |-> op, this |-> this, other |-> other, status |-> status,
     this_before |-> IF other = 0 THEN Absent("unused") ELSE handles[this],
     other_before |-> IF other = 0 THEN Absent("unused") ELSE handles[other],
     was_released |-> IsLive(this) /\ other = 0 /\ handles[this].pointer = null,
     freed |-> freed]

\* AllocatedData(): no allocator, null, 0.
AllocatedData_Default(h) ==
    /\ build.file = "part_000" /\ ~halted /\ IsUnused(h)
    /\ handles' = [handles EXCEPT ![h] = Buffer(no_allocator, null, 0)]
    /\ owned_last' = Op("AllocatedData()", h, 0, "ok", <<>>)
    /\ UNCHANGED <<wrapped, free_calls, halted>>

\* AllocatedData(allocator, pointer, allocated_size): throws on a null pointer.
AllocatedData_Wrap(h, allocator, pointer, allocated_size) ==
    /\ build.file = "part_000" /\ ~halted /\ IsUnused(h)
    /\ IF pointer = null
          THEN /\ owned_last' = Op("AllocatedData", h, 0, "InternalException", <<>>)
               /\ UNCHANGED <<handles, wrapped>>
          ELSE /\ handles' = [handles EXCEPT ![h] = Buffer(allocator, pointer, allocated_size)]
               /\ wrapped' = wrapped \cup {FreeCall(Buffer(allocator, pointer, allocated_size))}
               /\ owned_last' = Op("AllocatedData", h, 0, "ok", <<>>)
    /\ UNCHANGED <<free_calls, halted>>

\* Mutant: the move constructor copies the pair and leaves it in the source.
MoveConstructed_copies(other) ==
    <<Buffer(other.allocator, other.pointer, other.allocated_size), other>>

\* AllocatedData(AllocatedData &&other): <<the new object, other afterwards>>.
\* allocator(other.allocator), pointer(nullptr), allocated_size(0), then the
\* two swaps.
MoveConstructed(other) ==
    <<Buffer(other.allocator, other.pointer, other.allocated_size),
      [other EXCEPT !.pointer = null, !.allocated_size = 0]>>

AllocatedData_Move(h, other) ==
    /\ build.file = "part_000" /\ ~halted
    /\ IsUnused(h) /\ IsLive(other)
    /\ handles' = [handles EXCEPT ![h] = MoveConstructed(handles[other])[1],
                                  ![other] = MoveConstructed(handles[other])[2]]
    /\ owned_last' = Op("move-construct", h, other, "ok", <<>>)
    /\ UNCHANGED <<wrapped, free_calls, halted>>

\* operator=(AllocatedData &&other): the three fields are swapped.
MoveAssigned(this, other) ==
    <<[this EXCEPT !.allocator = other.allocator, !.pointer = other.pointer,
                   !.allocated_size = other.allocated_size],
      [other EXCEPT !.allocator = this.allocator, !.pointer = this.pointer,
                    !.allocated_size = this.allocated_size]>>

AllocatedData_MoveAssign(h, other) ==
    /\ build.file = "part_000" /\ ~halted
    /\ IsLive(h) /\ IsLive(other) /\ h # other
    /\ handles' = [handles EXCEPT ![h] = MoveAssigned(handles[h], handles[other])[1],
                                  ![other] = MoveAssigned(handles[h], handles[other])[2]]
    /\ owned_last' = Op("move-assign", h, other, "ok", <<>>)
    /\ UNCHANGED <<wrapped, free_calls, halted>>

\* Mutant: Reset frees but keeps the pointer.
Reset_keeps_pointer(this) ==
    IF this.pointer = null THEN [buffer |-> this, freed |-> <<>>, ok |-> TRUE]
    ELSE [buffer |-> this, freed |-> <<FreeCall(this)>>, ok |-> TRUE]

\* Reset(): the object afterwards, the FreeData calls made, and whether
\* D_ASSERT(allocator) held.
Reset(this) ==
    IF this.pointer = null THEN [buffer |-> this, freed |-> <<>>, ok |-> TRUE]
    ELSE IF build.DEBUG /\ this.allocator = no_allocator
         THEN [buffer |-> this, freed |-> <<>>, ok |-> FALSE]
    ELSE [buffer |-> [this EXCEPT !.allocated_size = 0, !.pointer = null],
          freed  |-> <<FreeCall(this)>>,
          ok     |-> TRUE]

AllocatedData_Reset(h) ==
    /\ build.file = "part_000" /\ ~halted /\ IsLive(h)
    /\ \A c \in DOMAIN free_calls : free_calls[c] <= 1
    /\ LET r == Reset(handles[h]) IN
       /\ handles' = [handles EXCEPT ![h] = r.buffer]
       /\ free_calls' = Freed(r.freed)
       /\ halted' = ~r.ok
       /\ owned_last' = Op("Reset", h, 0, IF r.ok THEN "ok" ELSE "D_ASSERT", r.freed)
    /\ UNCHANGED wrapped

\* ~AllocatedData(): Reset(), then the object is gone.
AllocatedData_Destroy(h) ==
    /\ build.file = "part_000" /\ ~halted /\ IsLive(h)
    /\ \A c \in DOMAIN free_calls : free_calls[c] <= 1
    /\ LET r == Reset(handles[h]) IN
       /\ handles' = [handles EXCEPT ![h] = IF r.ok THEN Absent("destroyed") ELSE r.buffer]
       /\ free_calls' = Freed(r.freed)
       /\ halted' = ~r.ok
       /\ owned_last' = Op("~AllocatedData", h, 0, IF r.ok THEN "ok" ELSE "D_ASSERT", r.freed)
    /\ UNCHANGED wrapped

\* -------------------------------------------- AllocatedData, allocator.cpp
\* The constructor takes any pointer; the allocator is held by reference.
Draft_AllocatedData_Wrap(h, allocator, pointer, allocated_size) ==
    /\ build.file = "allocator.cpp" /\ ~halted /\ IsUnused(h)
    /\ handles' = [handles EXCEPT ![h] = Buffer(allocator, pointer, allocated_size)]
    /\ wrapped' = IF pointer = null THEN wrapped
                  ELSE wrapped \cup {FreeCall(Buffer(allocator, pointer, allocated_size))}
    /\ owned_last' = Op("AllocatedData", h, 0, "ok", <<>>)
    /\ UNCHANGED <<free_calls, halted>>

\* Reset(): frees, clears the pointer, keeps allocated_size.
Draft_Reset(this) ==
    IF this.pointer = null THEN [buffer |-> this, freed |-> <<>>, ok |-> TRUE]
    ELSE [buffer |-> [this EXCEPT !.pointer = null],
          freed  |-> <<FreeCall(this)>>,
          ok     |-> TRUE]

Draft_AllocatedData_Reset(h) ==
    /\ build.file = "allocator.cpp" /\ ~halted /\ IsLive(h)
    /\ \A c \in DOMAIN free_calls : free_calls[c] <= 1
    /\ LET r == Draft_Reset(handles[h]) IN
       /\ handles' = [handles EXCEPT ![h] = r.buffer]
       /\ free_calls' = Freed(r.freed)
       /\ owned_last' = Op("Reset", h, 0, "ok", r.freed)
    /\ UNCHANGED <<wrapped, halted>>

Draft_AllocatedData_Destroy(h) ==
    /\ build.file = "allocator.cpp" /\ ~halted /\ IsLive(h)
    /\ \A c \in DOMAIN free_calls : free_calls[c] <= 1
    /\ LET r == Draft_Reset(handles[h]) IN
       /\ handles' = [handles EXCEPT ![h] = Absent("destroyed")]
       /\ free_calls' = Freed(r.freed)
       /\ owned_last' = Op("~AllocatedData", h, 0, "ok", r.freed)
    /\ UNCHANGED <<wrapped, halted>>

\* A buffer is built on a pointer no other buffer was built on (an
\* allocation has one owner), or on null.
Unwrapped(pointer) == \A w \in wrapped : w.pointer # pointer

\* Objects take the slots and allocations the addresses in increasing order
\* (which slot and which address is immaterial to the code).
NewHandle(h) == IsUnused(h) /\ \A g \in 1..(h - 1) : ~IsUnused(g)
NewPointer(p) ==
    p = null \/ (Unwrapped(p) /\ \A q \in 1..(p - 1) : ~Unwrapped(q))
\* The sizes buffers are built with: none, or some.
OwnedSizes == {0, 1}

\* Only the draft and DEBUG (D_ASSERT in Reset) matter to the buffers.
InitOwned ==
    /\ Init
    /\ ~build.LEMON_MALLOC /\ ~build.DUCKDB_DEBUG_ALLOCATION

NextOwned ==
    \/ /\ \E h \in HandleIds : NewHandle(h) /\ AllocatedData_Default(h)
       /\ UNCHANGED <<build, mem, heap, allocation_count, pointers, last, threadVars, defaultVars>>
    \/ /\ \E h \in HandleIds, a \in Allocators, p \in PtrOrNull, n \in OwnedSizes :
             NewHandle(h) /\ NewPointer(p) /\ AllocatedData_Wrap(h, a, p, n)
       /\ UNCHANGED <<build, mem, heap, allocation_count, pointers, last, threadVars, defaultVars>>
    \/ /\ \E h \in HandleIds, other \in HandleIds :
             NewHandle(h) /\ AllocatedData_Move(h, other)
       /\ UNCHANGED <<build, mem, heap, allocation_count, pointers, last, threadVars, defaultVars>>
    \/ /\ \E h \in HandleIds, other \in HandleIds : AllocatedData_MoveAssign(h, other)
       /\ UNCHANGED <<build, mem, heap, allocation_count, pointers, last, threadVars, defaultVars>>
    \/ /\ \E h \in HandleIds : AllocatedData_Reset(h)
       /\ UNCHANGED <<build, mem, heap, allocation_count, pointers, last, threadVars, defaultVars>>
    \/ /\ \E h \in HandleIds : AllocatedData_Destroy(h)
       /\ UNCHANGED <<build, mem, heap, allocation_count, pointers, last, threadVars, defaultVars>>
    \/ /\ \E h \in HandleIds, a \in Allocators, p \in PtrOrNull, n \in OwnedSizes :
             NewHandle(h) /\ NewPointer(p) /\ Draft_AllocatedData_Wrap(h, a, p, n)
       /\ UNCHANGED <<build, mem, heap, allocation_count, pointers, last, threadVars, defaultVars>>
    \/ /\ \E h \in HandleIds : Draft_AllocatedData_Reset(h)
       /\ UNCHANGED <<build, mem, heap, allocation_count, pointers, last, threadVars, defaultVars>>
    \/ /\ \E h \in HandleIds : Draft_AllocatedData_Destroy(h)
       /\ UNCHANGED <<build, mem, heap, allocation_count, pointers, last, threadVars, defaultVars>>

\* ------------------------------------------- threads on one Allocator, part_000
\* Threads call AllocateData(size), then possibly ReallocateData on the block
\* they got, then FreeData on it, NumPairs times each.  A call runs the steps
\* of its Program in order; a step is one access to shared state: a backend
\* call, an operation on the atomic<idx_t> allocation_count, a lock or unlock
\* of mtx or pointer_lock, or an access to `pointers` under pointer_lock.
ThreadSizes == {size \in Sizes : 0 < size /\ size < MAXIMUM_ALLOC_SIZE}

When(flag, steps) == IF flag THEN steps ELSE <<>>

\* AllocatorDebugInfo::AllocateData, lines 245-251.
DebugAllocateSteps ==
    <<"count_add">> \o When(build.DUCKDB_DEBUG_ALLOCATION, <<"pointer_lock", "register">>)

\* AllocatorDebugInfo::FreeData, lines 253-265.
DebugFreeSteps ==
    <<"count_assert", "count_sub">>
    \o When(build.DUCKDB_DEBUG_ALLOCATION, <<"pointer_lock", "unregister">>)

\* The steps of a call with a non-null pointer and a size under the ceiling,
\* in the order of the statements the build compiles.
Program(op) ==
    CASE op = "AllocateData" ->
            When(~build.LEMON_MALLOC, <<"allocate_function">>)
            \o When(build.DEBUG, DebugAllocateSteps)
            \o When(build.LEMON_MALLOC, <<"mtx_lock", "lemon_malloc", "mtx_unlock">>)
      [] op = "FreeData" ->
            When(build.DEBUG, DebugFreeSteps)
            \o When(~build.LEMON_MALLOC, <<"free_function">>)
            \o When(build.LEMON_MALLOC, <<"mtx_lock", "lemon_free", "mtx_unlock">>)
      [] op = "ReallocateData" ->
            When(~build.LEMON_MALLOC, <<"reallocate_function">>)
            \o When(build.DEBUG, DebugFreeSteps \o DebugAllocateSteps)
            \o When(build.LEMON_MALLOC,
                    <<"mtx_lock", "lemon_malloc", "memcpy", "lemon_free", "mtx_unlock">>)
      [] OTHER -> <<>>

\* The step thread t is about to take ("none" between calls).
Step(t) ==
    IF threads[t].op = "none" THEN "none" ELSE Program(threads[t].op)[threads[t].i]

\* The thread after its call returned or threw.
Returned(th) ==
    LET thrown == ~build.LEMON_MALLOC /\ th.result = null
        rest == [th EXCEPT !.op = "none", !.i = 0, !.new_size = 0, !.result = null]
    IN  CASE th.op = "AllocateData" ->
                IF thrown THEN Idle(th.pairs + 1)
                ELSE [rest EXCEPT !.holds = TRUE, !.pointer = th.result,
                                  !.size = th.new_size]
          [] th.op = "FreeData" -> Idle(th.pairs + 1)
          [] th.op = "ReallocateData" ->
                IF thrown THEN [rest EXCEPT !.reallocated = TRUE]
                ELSE [rest EXCEPT !.reallocated = TRUE, !.pointer = th.result,
                                  !.size = th.new_size]

\* The thread after a step that left it as th.
After(th) ==
    IF th.i < Len(Program(th.op)) THEN [th EXCEPT !.i = @ + 1] ELSE Returned(th)

Runs(t, step) == ~halted /\ Step(t) = step
Proceed(t) == threads' = [threads EXCEPT ![t] = After(threads[t])]
Calls(t, op, new_size) ==
    threads' = [threads EXCEPT ![t] = [@ EXCEPT !.op = op, !.i = 1,
                                                !.new_size = new_size]]
fixedVars == <<build, mem, last, ownedVars, defaultVars>>

\* AllocateData(size), lines 128-133: the size tests pass.
T_Call_AllocateData(t, size) ==
    /\ Runs(t, "none") /\ ~threads[t].holds /\ threads[t].pairs < NumPairs
    /\ Calls(t, "AllocateData", size)
    /\ UNCHANGED <<heap, allocation_count, pointers, halted, mtx, pointer_lock, fixedVars>>

\* FreeData(pointer, size) on the block held, lines 157-160: null returns.
T_Call_FreeData(t) ==
    /\ Runs(t, "none") /\ threads[t].holds
    /\ IF threads[t].pointer = null
          THEN threads' = [threads EXCEPT ![t] = Idle(threads[t].pairs + 1)]
          ELSE Calls(t, "FreeData", 0)
    /\ UNCHANGED <<heap, allocation_count, pointers, halted, mtx, pointer_lock, fixedVars>>

\* ReallocateData(pointer, size, new_size) on the block held, lines 176-184.
T_Call_ReallocateData(t, new_size) ==
    /\ Runs(t, "none") /\ threads[t].holds /\ ~threads[t].reallocated
    /\ threads[t].pointer # null
    /\ Calls(t, "ReallocateData", new_size)
    /\ UNCHANGED <<heap, allocation_count, pointers, halted, mtx, pointer_lock, fixedVars>>

\* allocate_function(private_data.get(), size), line 136.
T_allocate_function(t) ==
    /\ Runs(t, "allocate_function")
    /\ \E result \in BackendAllocate(heap, threads[t].new_size) :
          /\ heap' = IF result = null THEN heap
                     ELSE Put(heap, result, threads[t].new_size)
          /\ threads' = [threads EXCEPT ![t] = After([@ EXCEPT !.result = result])]
    /\ UNCHANGED <<allocation_count, pointers, halted, mtx, pointer_lock, fixedVars>>

\* free_function(private_data.get(), pointer, size), line 165.
T_free_function(t) ==
    /\ Runs(t, "free_function")
    /\ IF BackendFreeDefined(threads[t].pointer, threads[t].size)
          THEN heap' = Drop(heap, threads[t].pointer) /\ Proceed(t) /\ UNCHANGED halted
          ELSE halted' = TRUE /\ UNCHANGED <<heap, threads>>
    /\ UNCHANGED <<allocation_count, pointers, mtx, pointer_lock, fixedVars>>

\* reallocate_function(private_data.get(), pointer, old_size, size), line 186.
T_reallocate_function(t) ==
    /\ Runs(t, "reallocate_function")
    /\ IF Proper(threads[t].pointer, threads[t].size)
          THEN /\ \E new_pointer \in BackendReallocate(heap, threads[t].pointer,
                                                       threads[t].new_size) :
                     /\ heap' = IF new_pointer = null THEN heap
                                ELSE Put(Drop(heap, threads[t].pointer), new_pointer,
                                         threads[t].new_size)
                     /\ threads' = [threads EXCEPT
                                       ![t] = After([@ EXCEPT !.result = new_pointer])]
               /\ UNCHANGED halted
          ELSE halted' = TRUE /\ UNCHANGED <<heap, threads>>
    /\ UNCHANGED <<allocation_count, pointers, mtx, pointer_lock, fixedVars>>

\* allocation_count += size, line 246.
T_count_add(t) ==
    /\ Runs(t, "count_add")
    /\ allocation_count' = allocation_count + threads[t].new_size
    /\ Proceed(t)
    /\ UNCHANGED <<heap, pointers, halted, mtx, pointer_lock, fixedVars>>

\* D_ASSERT(allocation_count >= size), line 254: a load of the counter.
T_count_assert(t) ==
    /\ Runs(t, "count_assert")
    /\ IF allocation_count >= threads[t].size
          THEN Proceed(t) /\ UNCHANGED halted
          ELSE halted' = TRUE /\ UNCHANGED threads
    /\ UNCHANGED <<heap, allocation_count, pointers, mtx, pointer_lock, fixedVars>>

\* allocation_count -= size, line 255.
T_count_sub(t) ==
    /\ Runs(t, "count_sub")
    /\ allocation_count' = allocation_count - threads[t].size
    /\ Proceed(t)
    /\ UNCHANGED <<heap, pointers, halted, mtx, pointer_lock, fixedVars>>

\* lock_guard<mutex> l(pointer_lock), lines 248 and 257.
T_pointer_lock(t) ==
    /\ Runs(t, "pointer_lock") /\ pointer_lock = no_thread
    /\ pointer_lock' = t
    /\ Proceed(t)
    /\ UNCHANGED <<heap, allocation_count, pointers, halted, mtx, fixedVars>>

\* pointers[pointer] = make_pair(size, ...), line 249, and the end of the
\* lock_guard's scope.  The pointer is the backend's result, or what stands
\* for it when the pool has not produced it yet.
T_register(t) ==
    /\ Runs(t, "register")
    /\ pointers' = Put(pointers,
                       IF build.LEMON_MALLOC THEN Unset ELSE threads[t].result,
                       threads[t].new_size)
    /\ pointer_lock' = no_thread
    /\ Proceed(t)
    /\ UNCHANGED <<heap, allocation_count, halted, mtx, fixedVars>>

\* The two D_ASSERTs on the entry and pointers.erase(pointer), lines 259-263,
\* and the end of the lock_guard's scope.
T_unregister(t) ==
    /\ Runs(t, "unregister")
    /\ IF /\ threads[t].pointer \in DOMAIN pointers
          /\ pointers[threads[t].pointer] = threads[t].size
          THEN /\ pointers' = Drop(pointers, threads[t].pointer)
               /\ pointer_lock' = no_thread
               /\ Proceed(t)
               /\ UNCHANGED halted
          ELSE halted' = TRUE /\ UNCHANGED <<pointers, pointer_lock, threads>>
    /\ UNCHANGED <<heap, allocation_count, mtx, fixedVars>>

\* Mutant: lock() returns although another thread holds mtx.
MutexFree_ignored(m) == TRUE

\* lock() returns once no thread holds the mutex.
MutexFree(m) == m = no_thread

\* mtx.lock(), lines 148, 168, 201.
T_mtx_lock(t) ==
    /\ Runs(t, "mtx_lock") /\ MutexFree(mtx)
    /\ mtx' = t
    /\ Proceed(t)
    /\ UNCHANGED <<heap, allocation_count, pointers, halted, pointer_lock, fixedVars>>

\* vmm.lemon_malloc(size), lines 149, 203.
T_lemon_malloc(t) ==
    /\ Runs(t, "lemon_malloc")
    /\ \E result \in BackendAllocate(heap, threads[t].new_size) :
          /\ heap' = IF result = null THEN heap
                     ELSE Put(heap, result, threads[t].new_size)
          /\ threads' = [threads EXCEPT ![t] = After([@ EXCEPT !.result = result])]
    /\ UNCHANGED <<allocation_count, pointers, halted, mtx, pointer_lock, fixedVars>>

\* memcpy(new_addr, pointer, old_size), line 204: a crash when lemon_malloc
\* returned null or the copy leaves the address space.
T_memcpy(t) ==
    /\ Runs(t, "memcpy")
    /\ IF /\ threads[t].result # null
          /\ Cells(threads[t].result, threads[t].size) \subseteq Ptr
          /\ Cells(threads[t].pointer, threads[t].size) \subseteq Ptr
          THEN Proceed(t) /\ UNCHANGED halted
          ELSE halted' = TRUE /\ UNCHANGED threads
    /\ UNCHANGED <<heap, allocation_count, pointers, mtx, pointer_lock, fixedVars>>

\* vmm.lemon_free(pointer), lines 169, 205.
T_lemon_free(t) ==
    /\ Runs(t, "lemon_free")
    /\ IF BackendFreeDefined(threads[t].pointer, threads[t].size)
          THEN heap' = Drop(heap, threads[t].pointer) /\ Proceed(t) /\ UNCHANGED halted
          ELSE halted' = TRUE /\ UNCHANGED <<heap, threads>>
    /\ UNCHANGED <<allocation_count, pointers, mtx, pointer_lock, fixedVars>>

\* Mutant: the call returns without mtx.unlock().
T_mtx_unlock_skipped(t) ==
    /\ Runs(t, "mtx_unlock")
    /\ Proceed(t)
    /\ UNCHANGED <<heap, allocation_count, pointers, halted, mtx, pointer_lock, fixedVars>>

\* mtx.unlock(), lines 150, 170, 206.
T_mtx_unlock(t) ==
    /\ Runs(t, "mtx_unlock")
    /\ mtx' = no_thread
    /\ Proceed(t)
    /\ UNCHANGED <<heap, allocation_count, pointers, halted, pointer_lock, fixedVars>>

\* Every build of part_000.
InitThreads ==
    /\ build \in Builds
    /\ build.file = "part_000"
    /\ build.DUCKDB_DEBUG_ALLOCATION => build.DEBUG
    /\ InitState

\* A step of thread t inside a call.
T_Step(t) ==
    \/ T_allocate_function(t)
    \/ T_free_function(t)
    \/ T_reallocate_function(t)
    \/ T_count_add(t)
    \/ T_count_assert(t)
    \/ T_count_sub(t)
    \/ T_pointer_lock(t)
    \/ T_register(t)
    \/ T_unregister(t)
    \/ T_mtx_lock(t)
    \/ T_lemon_malloc(t)
    \/ T_memcpy(t)
    \/ T_lemon_free(t)
    \/ T_mtx_unlock(t)

NextThreads ==
    \/ \E t \in ThreadIds, size \in ThreadSizes : T_Call_AllocateData(t, size)
    \/ \E t \in ThreadIds : T_Call_FreeData(t)
    \/ \E t \in ThreadIds, new_size \in ThreadSizes : T_Call_ReallocateData(t, new_size)
    \/ \E t \in ThreadIds : T_allocate_function(t)
    \/ \E t \in ThreadIds : T_free_function(t)
    \/ \E t \in ThreadIds : T_reallocate_function(t)
    \/ \E t \in ThreadIds : T_count_add(t)
    \/ \E t \in ThreadIds : T_count_assert(t)
    \/ \E t \in ThreadIds : T_count_sub(t)
    \/ \E t \in ThreadIds : T_pointer_lock(t)
    \/ \E t \in ThreadIds : T_register(t)
    \/ \E t \in ThreadIds : T_unregister(t)
    \/ \E t \in ThreadIds : T_mtx_lock(t)
    \/ \E t \in ThreadIds : T_lemon_malloc(t)
    \/ \E t \in ThreadIds : T_memcpy(t)
    \/ \E t \in ThreadIds : T_lemon_free(t)
    \/ \E t \in ThreadIds : T_mtx_unlock(t)

\* ------------------------------- Allocator::DefaultAllocator(), part_000
\* static shared_ptr<Allocator> DEFAULT_ALLOCATOR = make_shared<Allocator>()
\* is a block-scope static: the first thread to reach the declaration
\* initializes it, a thread reaching it meanwhile waits, later ones skip it.

\* Mutant: the guard is tested without excluding a second initializer.
StaticGuard_unsynchronized(t) ==
    IF DEFAULT_ALLOCATOR.guard = "initialized" THEN "return" ELSE "initialize"

\* Where thread t goes from the declaration ("wait": it stays).
StaticGuard(t) ==
    IF DEFAULT_ALLOCATOR.guard = "initialized" THEN "return"
    ELSE IF DEFAULT_ALLOCATOR.guard = "initializing" THEN "wait"
    ELSE "initialize"

\* DefaultAllocator() -> DefaultAllocatorReference(): reach the declaration.
D_Enter(t) ==
    /\ callers[t].pc = "idle" /\ callers[t].accesses < NumAccesses
    /\ StaticGuard(t) # "wait"
    /\ callers' = [callers EXCEPT ![t].pc = StaticGuard(t)]
    /\ DEFAULT_ALLOCATOR' =
          IF StaticGuard(t) = "initialize"
             THEN [DEFAULT_ALLOCATOR EXCEPT !.guard = "initializing", !.by = t]
             ELSE DEFAULT_ALLOCATOR
    /\ UNCHANGED <<constructed, returned, allocVars, ownedVars, threadVars>>

\* make_shared<Allocator>(): a new Allocator; the static is initialized.
D_Construct(t) ==
    /\ callers[t].pc = "initialize"
    /\ constructed' = constructed + 1
    /\ DEFAULT_ALLOCATOR' = [guard |-> "initialized", by |-> no_thread,
                             instance |-> constructed + 1]
    /\ callers' = [callers EXCEPT ![t].pc = "return"]
    /\ UNCHANGED <<returned, allocVars, ownedVars, threadVars>>

\* return *DefaultAllocatorReference().
D_Return(t) ==
    /\ callers[t].pc = "return"
    /\ returned' = returned \cup {DEFAULT_ALLOCATOR.instance}
    /\ callers' = [callers EXCEPT ![t] = [pc |-> "idle", accesses |-> @.accesses + 1]]
    /\ UNCHANGED <<DEFAULT_ALLOCATOR, constructed, allocVars, ownedVars, threadVars>>

InitDefault ==
    /\ Init
    /\ build.file = "part_000" /\ ~build.DUCKDB_DEBUG_ALLOCATION

NextDefault ==
    \/ \E t \in CallerIds : D_Enter(t)
    \/ \E t \in CallerIds : D_Construct(t)
    \/ \E t \in CallerIds : D_Return(t)

\* ------------------------- AllocatorDebugInfo::~AllocatorDebugInfo, part_000
\* The Allocator is destroyed and with it private_data->debug_info, which
\* debug builds always create (lines 116-121).
\* log: what the destructor did, in order: "report" for the printf loop over
\* `pointers` (lines 229-238), "D_ASSERT" for a failed assertion (line 242).
\* reported: the entries the loop printed.
Destructor(count, registry) ==
    LET report == build.DUCKDB_DEBUG_ALLOCATION /\ count # 0 IN
    [log      |-> When(report, <<"report">>) \o When(count # 0, <<"D_ASSERT">>),
     reported |-> IF report THEN registry ELSE EmptyMap,
     status   |-> IF count = 0 THEN "ok" ELSE "D_ASSERT"]

\* No call follows the destructor.
Alive == last.op # "~AllocatorDebugInfo"

Teardown ==
    /\ build.file = "part_000" /\ build.DEBUG
    /\ ~halted /\ Alive
    /\ LET d == Destructor(allocation_count, pointers) IN
          /\ last' = [op |-> "~AllocatorDebugInfo", status |-> d.status,
                      log |-> d.log, reported |-> d.reported] @@ NoCall
          /\ halted' = (d.status = "D_ASSERT")
    /\ UNCHANGED <<build, mem, heap, allocation_count, pointers,
                   ownedVars, threadVars, defaultVars>>

NextTeardown ==
    \/ Alive /\ Next
    \/ Teardown

Spec == Init /\ [][Next]_vars
SpecContent == InitContent /\ [][Next]_vars
SpecOwned == InitOwned /\ [][NextOwned]_vars
SpecThreads == InitThreads /\ [][NextThreads]_vars
SpecDefault == InitDefault /\ [][NextDefault]_vars
SpecTeardown == Init /\ [][NextTeardown]_vars

\* Each thread is scheduled again and again: a step that stays possible is
\* taken.  std::mutex promises no order among waiting threads, so nothing
\* stronger is assumed of lock().
SpecThreadsFair ==
    InitThreads /\ [][NextThreads]_vars /\ \A t \in ThreadIds : WF_vars(T_Step(t))

\* ================================================================ claims
ValidSize(size) == 0 < size /\ size < MAXIMUM_ALLOC_SIZE

\* C1: in a debug build, a FreeData(pointer, s) that directly follows the
\* AllocateData(s) which returned that non-null pointer completes and leaves
\* allocation_count at the value it had before the AllocateData.
C1_AllocateThenFreeRestoresCount ==
    (build.DEBUG /\ last.op = "FreeData" /\ last.pair # NoPair)
        => (last.status = "ok" /\ allocation_count = last.pair[1])

\* C1 witness: such a pair completed from a state with bytes outstanding.
C1_Witness ==
    /\ build.DEBUG /\ last.op = "FreeData" /\ last.status = "ok"
    /\ last.pair # NoPair /\ last.pair[1] > 0
    /\ allocation_count = last.pair[1]

\* C3: AllocateData(s) with s = 0 or s >= MAXIMUM_ALLOC_SIZE ends by throwing
\* the size-limit exception without any backend call, in every build.
C3_BadSizeThrowsBeforeBackend ==
    (last.op = "AllocateData" /\ ~ValidSize(last.size))
        => (last.status = "InternalException" /\ last.backend = <<>>)

\* C4: for a valid size, a null from the backend makes AllocateData throw
\* bad_alloc, so no AllocateData that returns hands out a null pointer.
C4_NullFromBackendThrows ==
    (last.op = "AllocateData" /\ ValidSize(last.size) /\ last.backend # <<>>
     /\ last.result = null)
        => last.status = "bad_alloc"

\* C5: ReallocateData(null, old_size, new_size) returns null for every
\* old_size and new_size, makes no backend call, raises nothing and leaves
\* the counter, the registry and the heap as they were.
C5_ReallocateNullIsNoop ==
    [][(last'.op = "ReallocateData" /\ last'.pointer = null) =>
       \A old_size \in Sizes, size \in {last'.size} :
          (ReallocateData(null, old_size, size) \/ Draft_ReallocateData(null, size))
              => /\ last'.status = "ok" /\ last'.result = null
                 /\ last'.backend = <<>>
                 /\ ~halted'
                 /\ UNCHANGED <<allocation_count, pointers, heap, mem>>]_vars

\* C5 witness: a debug build with bytes outstanding answered a
\* ReallocateData(null, _, MAXIMUM_ALLOC_SIZE) by returning.
C5_Witness ==
    /\ last.op = "ReallocateData" /\ last.pointer = null
    /\ last.size >= MAXIMUM_ALLOC_SIZE /\ last.status = "ok"
    /\ build.DEBUG /\ allocation_count > 0

\* C6: a ReallocateData(pointer, old_size, new_size) on a live block of
\* old_size bytes that returns a pointer returns a block of at least new_size
\* bytes whose first min(old_size, new_size) bytes are those the original
\* block held before the call.
C6_ReallocateKeepsPrefix ==
    [][\A pointer \in Ptr, old_size \in Sizes, size \in Sizes :
          (/\ Proper(pointer, old_size)
           /\ ReallocateData(pointer, old_size, size)
           /\ last'.status = "ok" /\ last'.result # null)
              => /\ last'.result \in Live(heap')
                 /\ heap'[last'.result] >= size
                 /\ Content(mem', last'.result, Min(old_size, size))
                        = Content(mem, pointer, Min(old_size, size))]_vars

\* C10: FreeData(null, size) is a no-op for every size: it returns, makes no
\* backend call (so no pool operation under mtx), fires no assertion and
\* leaves the counter, the registry and the heap as they were.
C10_FreeNullIsNoop ==
    [][(last'.op = "FreeData" /\ last'.pointer = null) =>
       \A size \in {last'.size} :
          (FreeData(null, size) \/ Draft_FreeData(null, size))
              => /\ last'.status = "ok"
                 /\ last'.backend = <<>>
                 /\ ~halted'
                 /\ UNCHANGED <<allocation_count, pointers, heap, mem>>]_vars

\* C10 witness: a debug build with bytes outstanding returned from
\* FreeData(null, 0).
C10_Witness ==
    /\ last.op = "FreeData" /\ last.pointer = null /\ last.size = 0
    /\ last.status = "ok" /\ build.DEBUG /\ allocation_count > 0

\* Every thread has performed its pairs.
Finished == \A t \in ThreadIds : threads[t] = Idle(NumPairs)

RECURSIVE Outstanding(_)
\* Sum of the sizes of the blocks of h: the allocations not yet freed.
Outstanding(h) ==
    IF h = EmptyMap THEN 0
    ELSE LET a == CHOOSE x \in DOMAIN h : TRUE IN h[a] + Outstanding(Drop(h, a))

C7_SourceReleasedAfterMove ==
    owned_last.op \in {"move-construct", "move-assign"}
        => /\ handles[owned_last.other].pointer = null
           /\ handles[owned_last.other].allocated_size = 0

Triple(b) == <<b.allocator, b.pointer, b.allocated_size>>

\* C7, amended: a move construction gives the new object the source's
\* allocator, pointer and size and leaves the source released; a move
\* assignment exchanges allocator, pointer and size of the two objects, so
\* the source is released exactly when the destination was; destroying an
\* object that holds no pointer makes no FreeData call.
C7_MoveTransfersOrExchanges ==
    /\ owned_last.op = "move-construct"
          => /\ Triple(handles[owned_last.this]) = Triple(owned_last.other_before)
             /\ handles[owned_last.other].pointer = null
             /\ handles[owned_last.other].allocated_size = 0
    /\ owned_last.op = "move-assign"
          => /\ Triple(handles[owned_last.this]) = Triple(owned_last.other_before)
             /\ Triple(handles[owned_last.other]) = Triple(owned_last.this_before)
    /\ (owned_last.op = "~AllocatedData" /\ owned_last.was_released)
          => owned_last.freed = <<>>

\* C7 witness: a move assignment between two objects that both held a buffer.
C7_Witness ==
    /\ owned_last.op = "move-assign"
    /\ owned_last.this_before.pointer # null
    /\ owned_last.other_before.pointer # null
    /\ handles[owned_last.other].pointer = owned_last.this_before.pointer

Holders(pointer) == {h \in HandleIds : IsLive(h) /\ handles[h].pointer = pointer}

\* C8: at every point a non-null pointer is held by at most one live object;
\* a wrapped (allocator, pointer, size) has either one holder and no FreeData
\* call yet, or no holder and exactly one FreeData call, made on its
\* allocator with its size (so once all objects are destroyed each was freed
\* exactly once); no other FreeData call is made; Reset on an object that
\* holds no pointer makes no FreeData call.
C8_EachBufferFreedOnce ==
    /\ \A p \in Ptr : Cardinality(Holders(p)) <= 1
    /\ \A c \in DOMAIN free_calls : c \in wrapped /\ free_calls[c] = 1
    /\ \A w \in wrapped :
          IF TimesFreed(w) = 0
             THEN \E h \in Holders(w.pointer) : FreeCall(handles[h]) = w
             ELSE Holders(w.pointer) = {}
    /\ (owned_last.op = "Reset" /\ owned_last.was_released)
          => owned_last.freed = <<>>

\* C8 witness: every object is destroyed and two buffers built on different
\* allocators were each freed once.
C8_Witness ==
    /\ \A h \in HandleIds : handles[h].state = "destroyed"
    /\ \E v \in wrapped, w \in wrapped :
          /\ v.allocator # w.allocator
          /\ TimesFreed(v) = 1 /\ TimesFreed(w) = 1

\* C9: every AllocatedData object has size > 0 when its pointer is non-null
\* and size 0 when its pointer is null, after every constructor call the code
\* accepts and after every move, Reset and destructor.
C9_PointerAndSizeAgree ==
    \A h \in HandleIds :
        IsLive(h) => /\ handles[h].pointer # null => handles[h].allocated_size > 0
                     /\ handles[h].pointer = null => handles[h].allocated_size = 0

\* What a debug build can know of a block: the registry entry with
\* DUCKDB_DEBUG_ALLOCATION, else only that the Allocator handed it out with
\* that size and it was not freed.
Tracked(pointer, size) ==
    IF extended THEN pointer \in DOMAIN pointers /\ pointers[pointer] = size
    ELSE Proper(pointer, size)

\* C11: in a debug build, with or without the extended registry, a
\* FreeData(p, size) with non-null p ends in a fatal assertion whenever p is
\* not tracked or is tracked under another size.
C11_BadFreeIsFatal ==
    [][(last'.op = "FreeData" /\ last'.pointer # null /\ build.DEBUG) =>
       \A pointer \in {last'.pointer}, size \in {last'.size} :
          (FreeData(pointer, size) /\ ~Tracked(pointer, size))
              => (last'.status = "D_ASSERT" /\ halted')]_vars

\* C12: however many threads race to the default Allocator first, one
\* Allocator is constructed and every access, racing or later, returns that
\* same instance.
C12_DefaultConstructedOnce ==
    /\ constructed <= 1
    /\ Cardinality(returned) <= 1
    /\ no_instance \notin returned

\* C12 witness: every thread made all its accesses and all of them got the
\* one instance.
C12_Witness ==
    /\ \A t \in CallerIds : callers[t].pc = "idle" /\ callers[t].accesses = NumAccesses
    /\ constructed = 1 /\ returned = {1}

\* The instrumentation agrees with the backend: the counter is the sum of the
\* sizes of the live blocks and the registry holds exactly those blocks.
Consistent(count, registry, h) == count = Outstanding(h) /\ registry = h

\* C13: with DEBUG and DUCKDB_DEBUG_ALLOCATION, a call that succeeds from a
\* state where counter and registry agree with the live allocations leaves
\* them agreeing (so they agree after any sequence of successful calls); a
\* successful ReallocateData(p, old, new) returning q changes the counter by
\* new - old, drops p's entry unless q = p and registers q with size new.
C13_InstrumentationFollowsCalls ==
    [][(/\ extended
        /\ Consistent(allocation_count, pointers, heap)
        /\ last'.op \in {"AllocateData", "FreeData", "ReallocateData"}
        /\ last'.status = "ok")
          => /\ Consistent(allocation_count', pointers', heap')
             /\ \A pointer \in {last'.pointer} \ {null}, old_size \in Sizes,
                   size \in {last'.size} :
                   ReallocateData(pointer, old_size, size)
                      => /\ allocation_count' = allocation_count + size - old_size
                         /\ last'.result \in DOMAIN pointers'
                         /\ pointers'[last'.result] = size
                         /\ last'.result # pointer => pointer \notin DOMAIN pointers'
       ]_vars

\* C13 witness: a ReallocateData that moved and resized a block succeeded
\* while another block was live, and the instrumentation agrees.
C13_Witness ==
    /\ extended
    /\ last.op = "ReallocateData" /\ last.status = "ok"
    /\ last.pointer # null /\ last.result \notin {null, last.pointer}
    /\ Cardinality(DOMAIN heap) = 2
    /\ Consistent(allocation_count, pointers, heap)

\* C14: when AllocateData or ReallocateData throws bad_alloc because the
\* backend returned null, the instrumentation is as before the call: the
\* counter is unchanged, null is not registered and, for ReallocateData, the
\* original pointer is still registered with old_size.
C14_FailureLeavesInstrumentation ==
    [][(build.DEBUG /\ last'.op \in {"AllocateData", "ReallocateData"}
        /\ last'.status = "bad_alloc")
          => /\ allocation_count' = allocation_count
             /\ pointers' = pointers
             /\ null \notin DOMAIN pointers']_vars

BackendCalls ==
    {"allocate_function", "free_function", "reallocate_function",
     "lemon_malloc", "lemon_free"}
InstrumentationUpdates == {"count_add", "count_sub", "register", "unregister"}

\* The steps a thread's call in progress still has to take.
Ahead(t) ==
    IF threads[t].op = "none" THEN {}
    ELSE {Program(threads[t].op)[k] :
             k \in threads[t].i..Len(Program(threads[t].op))}

\* C15: in AllocateData, FreeData and ReallocateData the counter and the
\* registry are updated for a pointer only after the backend call that
\* produced or consumed that pointer has returned: no call is about to update
\* the instrumentation with a backend call still ahead of it.
C15_InstrumentationAfterBackend ==
    \A t \in ThreadIds :
        Step(t) \in InstrumentationUpdates => Ahead(t) \cap BackendCalls = {}

\* No thread is inside a call.
Quiescent == \A t \in ThreadIds : threads[t].op = "none"

\* C16: with the extended registry and a backend that may hand a released
\* address to another thread at once, threads that free and reallocate only
\* their own blocks with the matching size trigger no assertion in any
\* interleaving, and whenever all threads are between calls the registry is
\* exactly the set of live allocations with their sizes.  Stated for the
\* runs in which the backend never returned null (a failed call registers
\* null for good, see C14).
C16_RegistryFollowsOwners ==
    (extended /\ ~build.LEMON_MALLOC /\ null \notin DOMAIN pointers)
        => /\ ~halted
           /\ Quiescent => pointers = heap

\* The steps a thread takes inside the pool, and the unlock that ends them.
PoolSteps == {"lemon_malloc", "memcpy", "lemon_free", "mtx_unlock"}
InPool(t) == Step(t) \in PoolSteps

\* C17: with the pooled backend, a thread between mtx.lock() and mtx.unlock()
\* (lemon_malloc, lemon_free, and all of ReallocateData's lemon_malloc, memcpy
\* and lemon_free) holds mtx, and at most one thread is there at any time.
C17_PoolUnderMutex ==
    build.LEMON_MALLOC
        => /\ \A t \in ThreadIds : InPool(t) => mtx = t
           /\ Cardinality({t \in ThreadIds : InPool(t)}) <= 1

\* A thread is in the middle of ReallocateData's sequence, its new block
\* allocated and its old one not yet freed, while another waits at mtx.lock().
C17_Witness ==
    /\ build.LEMON_MALLOC /\ ~halted
    /\ \E t, u \in ThreadIds :
          /\ threads[t].op = "ReallocateData" /\ Step(t) \in {"memcpy", "lemon_free"}
          /\ mtx = t
          /\ Step(u) = "mtx_lock"

\* The locks thread t holds.
Held(t) == {l \in {"mtx", "pointer_lock"} :
               \/ l = "mtx" /\ mtx = t
               \/ l = "pointer_lock" /\ pointer_lock = t}

\* C18: no thread holds mtx and pointer_lock together; a thread that is not
\* inside a call (it has not called yet, or its call returned or threw) holds
\* no lock; and, every thread being scheduled again and again, a call in
\* progress ends: it returns or throws, unless a fatal assertion or a crash
\* ended the process.
C18_LocksReleasedAndCallsEnd ==
    /\ [](\A t \in ThreadIds : /\ Cardinality(Held(t)) <= 1
                               /\ threads[t].op = "none" => Held(t) = {})
    /\ \A t \in ThreadIds :
          (threads[t].op # "none") ~> (threads[t].op = "none" \/ halted)

\* Both locks exist and both are held, by two threads, one of them at the
\* registry and the other in the pool.
C18_Witness ==
    /\ build.LEMON_MALLOC /\ build.DUCKDB_DEBUG_ALLOCATION /\ ~halted
    /\ \E t, u \in ThreadIds :
          /\ t # u
          /\ Held(t) = {"pointer_lock"} /\ Step(t) \in {"register", "unregister"}
          /\ Held(u) = {"mtx"} /\ InPool(u)

\* C19: when ~AllocatorDebugInfo runs with a non-zero counter, it reports
\* every entry of the registry (extended builds) and only then fails the
\* assertion; with a zero counter it reports nothing and asserts nothing; and
\* when no allocation is outstanding (every block the backend handed out has
\* been given back by a FreeData or ReallocateData that completed) the
\* destructor does not abort.  Stated for the builds that compile (the
\* debug builds over the function table).
C19_TeardownReportsThenAsserts ==
    (last.op = "~AllocatorDebugInfo" /\ ~build.LEMON_MALLOC)
        => /\ allocation_count # 0
                => /\ last.status = "D_ASSERT"
                   /\ last.log = IF build.DUCKDB_DEBUG_ALLOCATION
                                    THEN <<"report", "D_ASSERT">> ELSE <<"D_ASSERT">>
                   /\ build.DUCKDB_DEBUG_ALLOCATION => last.reported = pointers
           /\ allocation_count = 0
                => /\ last.status = "ok"
                   /\ last.log = <<>> /\ last.reported = EmptyMap
           /\ heap = EmptyMap => last.status = "ok"

\* C20: on the pooled path, ReallocateData's copy stays inside both blocks
\* (it writes no byte past the new block's new_size, reads none past the old
\* block's old_size) and does not copy into null when lemon_malloc fails.
C20_PoolReallocateInBounds ==
    (/\ build.LEMON_MALLOC /\ ~build.DEBUG
     /\ last.op = "ReallocateData" /\ last.pointer # null /\ ValidSize(last.size))
        => /\ ~last.oob
           /\ last.status # "undefined"
====
